---- MODULE Spec2Model ----
(***************************************************************************)
(* A model of imgix-rs: the Url builder (src/imgix/url/mod.rs), its        *)
(* validators (src/imgix/validate/mod.rs), the constants table and the     *)
(* srcset generator (src/imgix/source_set/mod.rs).                         *)
(*                                                                         *)
(* Strings are sequences of one-character strings, so that concatenation,  *)
(* prefixes, suffixes and separators are all observable.  An Option<T> is  *)
(* a sequence of length at most one: None is << >>, Some(x) is <<x>>.      *)
(* A panic is a failed Result: the value that was moved into the call is   *)
(* gone and only the panic message remains.                                *)
(***************************************************************************)
EXTENDS Integers, Sequences, FiniteSets, TLC

VARIABLES
    url,        \* Option<Url>: the Url value the caller holds (None after a panic or a move)
    call,       \* the last Url operation called: [op, arg]
    err,        \* Option<Error>: the panic of the last Url operation, if it panicked
    joined,     \* Option<String>: what the last call returned, when it was join()
    supplied,   \* history: the pairs given to successful param/params calls, in call order
    pathSet,    \* history: a path(p) call has succeeded on this Url value
    ss,         \* Option<SourceSet>: the SourceSet value the caller holds
    attr,       \* Option<String>: what the last call returned, when it was srcset_attr()
    serr,       \* Option<Error>: the panic of the last SourceSet operation, if it panicked
    scall,      \* the last getter or free function called: [op, arg]
    ret,        \* Option<value>: what the call recorded in scall returned
    lastSet,    \* history: the argument of the last call of each setter that has a getter
    cfg,        \* Option<Config>: the Config value the srcset module holds
    cfgHist     \* history: the last domain and path, and the last two params lists, given to cfg

uvars == <<url, call, err, joined, supplied, pathSet>>
svars == <<ss, attr, serr, scall, ret, lastSet, cfg, cfgHist>>
vars == <<url, call, err, joined, supplied, pathSet, ss, attr, serr, scall, ret, lastSet,
          cfg, cfgHist>>

(***************************************************************************)
(* Bounds of the model.                                                    *)
(***************************************************************************)
\* the longest parameter list a Url is grown to, and the longest slice given to params()
MaxParams == 2
\* the longest target-width slice given to SourceSet::targets
MaxTargets == 2

(***************************************************************************)
(* Option and Result.                                                      *)
(***************************************************************************)
None == << >>
Some(x) == <<x>>

Ok(v) == [ok |-> TRUE, val |-> <<v>>, err |-> << >>]
Err(e) == [ok |-> FALSE, val |-> << >>, err |-> <<e>>]

(***************************************************************************)
(* src/imgix/util/errors.rs: the error kinds.                              *)
(***************************************************************************)
DomainError(msg) == [kind |-> "DomainError", msg |-> msg]
JoinError(msg) == [kind |-> "JoinError", msg |-> msg]
ParamError(msg) == [kind |-> "ParamError", msg |-> msg]
PathError(msg) == [kind |-> "PathError", msg |-> msg]
\* panic!(msg) and assert!(..), which carry no Error value
Panic(msg) == [kind |-> "panic", msg |-> msg]

(***************************************************************************)
(* src/imgix/validate/mod.rs                                               *)
(***************************************************************************)
validate_domain(d) ==
    IF d = << >> THEN Err(DomainError("domain cannot be empty")) ELSE Ok(<< >>)

validate_path(p) ==
    IF p = << >> THEN Err(PathError("path cannot be empty")) ELSE Ok(<< >>)

\* a param_pair that looks at the value first
param_pair_value_first(k, v) ==
    IF v = << >> THEN Err(ParamError("value cannot be empty"))
    ELSE IF k = << >> THEN Err(ParamError("key cannot be empty"))
    ELSE Ok(<< >>)

param_pair(k, v) ==
    IF k = << >> THEN Err(ParamError("key cannot be empty"))
    ELSE IF v = << >> THEN Err(ParamError("value cannot be empty"))
    ELSE Ok(<< >>)

(***************************************************************************)
(* src/imgix/constants.rs                                                  *)
(***************************************************************************)
\* env!("CARGO_PKG_VERSION"), the version the crate's documentation names: 0.1.0
CARGO_PKG_VERSION == <<"0", ".", "1", ".", "0">>

lib_version == <<"r", "u", "s", "t", "=">> \o CARGO_PKG_VERSION

\* f32 constants holding whole numbers, kept as integers
IMAGE_MIN_WIDTH == 100
IMAGE_MAX_WIDTH == 8192
SRCSET_WIDTH_TOLERANCE == 8

\* a width table one entry short of the maximum width
SRCSET_TARGET_WIDTHS_short ==
    <<100, 116, 135, 156, 181, 210, 244, 283, 328, 380, 441, 512, 594, 689, 799,
      927, 1075, 1247, 1446, 1678, 1946, 2257, 2619, 3038, 3524, 4087, 4741, 5500,
      6380, 7401>>

SRCSET_TARGET_WIDTHS ==
    <<100, 116, 135, 156, 181, 210, 244, 283, 328, 380, 441, 512, 594, 689, 799,
      927, 1075, 1247, 1446, 1678, 1946, 2257, 2619, 3038, 3524, 4087, 4741, 5500,
      6380, 7401, 8192>>

SRCSET_TARGET_DPR_RATIOS == <<1, 2, 3, 4, 5>>

SRCSET_DPR_QUALITIES == <<75, 50, 35, 23, 20>>

(***************************************************************************)
(* f32 arithmetic, as far as test_srcset_target_widths uses it.  A finite  *)
(* positive f32 is [m, e] with 2^23 <= m < 2^24 and the value m * 2^(e-23).*)
(* Products are formed in 12-bit halves so that no intermediate exceeds    *)
(* 31 bits, and rounded to nearest, ties to even, as IEEE 754 does.        *)
(***************************************************************************)
RECURSIVE Pow2(_)
Pow2(n) == IF n = 0 THEN 1 ELSE 2 * Pow2(n - 1)

\* the exponent of the leading bit of n >= 1
RECURSIVE Log2Floor(_)
Log2Floor(n) == IF n < 2 THEN 0 ELSE 1 + Log2Floor(n \div 2)

\* n as f32, for a whole number n < 2^24 (exactly representable)
F32(n) == [m |-> n * Pow2(23 - Log2Floor(n)), e |-> Log2Floor(n)]

\* q + rem/unit rounded to nearest, ties to even
RoundTiesEven(q, rem, unit) ==
    IF 2 * rem > unit \/ (2 * rem = unit /\ q % 2 = 1) THEN q + 1 ELSE q

\* a mantissa that rounding carried up to 2^24 is renormalised
F32Norm(m, e) == IF m = Pow2(24) THEN [m |-> Pow2(23), e |-> e + 1] ELSE [m |-> m, e |-> e]

\* a * b
F32Mul(a, b) ==
    LET ah == a.m \div 4096
        al == a.m % 4096
        bh == b.m \div 4096
        bl == b.m % 4096
        mid == ah * bl + al * bh
        losum == al * bl + (mid % 4096) * 4096
        lo == losum % Pow2(24)
        hi == ah * bh + mid \div 4096 + losum \div Pow2(24)
    IN  IF hi >= Pow2(23)
        THEN F32Norm(RoundTiesEven(hi, lo, Pow2(24)), a.e + b.e + 1)
        ELSE F32Norm(RoundTiesEven(2 * hi + lo \div Pow2(23), lo % Pow2(23), Pow2(23)),
                     a.e + b.e)

\* a <= b
F32Le(a, b) == a.e < b.e \/ (a.e = b.e /\ a.m <= b.m)

\* a.trunc() as u32, for 1 <= a < 2^24
F32Trunc(a) == a.m \div Pow2(23 - a.e)

\* a.round() as u32, for 1 <= a < 2^24: to nearest, halves away from zero
F32Round(a) ==
    LET unit == Pow2(23 - a.e) IN
    a.m \div unit + (IF 2 * (a.m % unit) >= unit THEN 1 ELSE 0)

\* n / d as f32, for whole numbers with 2^-4 <= n / d < 1 and n < 2^4
F32Div(n, d) ==
    LET e == IF 2 * n >= d THEN -1 ELSE IF 4 * n >= d THEN -2
             ELSE IF 8 * n >= d THEN -3 ELSE -4
        num == n * Pow2(23 - e)
    IN  F32Norm(RoundTiesEven(num \div d, num % d, d), e)

\* 1.0 + a, for an f32 a with 2^-8 <= a < 1
F32OnePlus(a) ==
    LET unit == Pow2(0 - a.e) IN
    F32Norm(Pow2(23) + RoundTiesEven(a.m \div unit, a.m % unit, unit), 0)

\* test_srcset_target_widths: the loop, from the running value prev at index
RECURSIVE test_srcset_target_widths_loop(_, _)
test_srcset_target_widths_loop(prev, index) ==
    IF F32Le(prev, F32(IMAGE_MAX_WIDTH)) /\ index < Len(SRCSET_TARGET_WIDTHS)
    THEN IF SRCSET_TARGET_WIDTHS[index + 1] # F32Round(prev)
         THEN Err(Panic("assertion failed: left == right"))
         ELSE test_srcset_target_widths_loop(
                  F32Mul(prev, F32OnePlus(F32Mul(F32Div(SRCSET_WIDTH_TOLERANCE, 100),
                                                 F32(2)))),
                  index + 1)
    ELSE Ok([index |-> index, prev |-> prev])

\* test_srcset_target_widths: passes or panics in one of its assertions
test_srcset_target_widths ==
    IF Len(SRCSET_TARGET_WIDTHS) # 31
    THEN Err(Panic("assertion failed: left == right"))
    ELSE LET r == test_srcset_target_widths_loop(F32(100), 0) IN
         IF ~r.ok THEN r
         ELSE IF r.val[1].index # Len(SRCSET_TARGET_WIDTHS) - 1
         THEN Err(Panic("assertion failed: left == right"))
         ELSE r

(***************************************************************************)
(* src/imgix/url/mod.rs: Scheme and its Display.                           *)
(***************************************************************************)
Scheme == {"Https", "Http"}

Scheme_fmt(s) ==
    IF s = "Https" THEN <<"h", "t", "t", "p", "s">> ELSE <<"h", "t", "t", "p">>

(***************************************************************************)
(* src/imgix/url/mod.rs: the Url value and its builder operations.         *)
(***************************************************************************)
Url_default ==
    [scheme |-> "Https", domain |-> << >>, lib |-> << >>, params |-> << >>,
     path |-> None, token |-> None]

Url_new(domain) ==
    LET v == validate_domain(domain) IN
    IF v.ok THEN Ok([Url_default EXCEPT !.domain = domain]) ELSE Err(v.err[1])

Url_domain(self, d) ==
    LET v == validate_domain(d) IN
    IF v.ok THEN Ok([self EXCEPT !.domain = d]) ELSE Err(v.err[1])

Url_path(self, p) ==
    LET v == validate_path(p) IN
    IF v.ok THEN Ok([self EXCEPT !.path = Some(p)]) ELSE Err(v.err[1])

\* a param that keeps one pair per key, as a map insert would
Url_param_replaces(self, k, v) ==
    LET r == param_pair(k, v)
        others == SelectSeq(self.params, LAMBDA kv : kv[1] # k)
    IN  IF r.ok THEN Ok([self EXCEPT !.params = Append(others, <<k, v>>)])
        ELSE Err(r.err[1])

Url_param(self, k, v) ==
    LET r == param_pair(k, v) IN
    IF r.ok THEN Ok([self EXCEPT !.params = Append(@, <<k, v>>)]) ELSE Err(r.err[1])

\* the loop of Url::params from its i-th pair on: push each valid pair, panic at
\* the first invalid one
RECURSIVE Url_params_loop(_, _, _)
Url_params_loop(self, p, i) ==
    IF i > Len(p) THEN Ok(self)
    ELSE LET r == param_pair(p[i][1], p[i][2]) IN
         IF r.ok
         THEN Url_params_loop([self EXCEPT !.params = Append(@, p[i])], p, i + 1)
         ELSE Err(r.err[1])

\* a params that pushes the pairs without validating them
Url_params_unvalidated(self, p) == Ok([self EXCEPT !.params = @ \o p])

Url_params(self, p) == Url_params_loop(self, p, 1)

Url_lib(self, l) == Ok([self EXCEPT !.lib = l])

Url_token(self, t) == Ok([self EXCEPT !.token = Some(t)])

\* a scheme that rebuilds the Url from its scheme, domain and path alone
Url_scheme_rebuilds(self, s) ==
    Ok([Url_default EXCEPT !.scheme = s, !.domain = self.domain, !.path = self.path])

Url_scheme(self, s) == Ok([self EXCEPT !.scheme = s])

Url_ix(self) == Ok([self EXCEPT !.lib = lib_version])

\* the loop of join_params: `it` counts from 1, `end` is p.len()
RECURSIVE join_params_loop(_, _, _)
join_params_loop(p, it, result) ==
    IF it > Len(p) THEN Ok(result)
    ELSE IF p[it][1] = << >> THEN Err(Panic("assertion failed: !k.is_empty()"))
    ELSE IF p[it][2] = << >> THEN Err(Panic("assertion failed: !v.is_empty()"))
    ELSE LET pushed == result \o p[it][1] \o <<"=">> \o p[it][2] IN
         join_params_loop(p, it + 1,
                          IF it < Len(p) THEN pushed \o <<"&">> ELSE pushed)

\* a join_params that pushes '&' after every pair, the last included
RECURSIVE join_params_separator_after_each(_)
join_params_separator_after_each(p) ==
    IF p = << >> THEN Ok(<< >>)
    ELSE LET rest == join_params_separator_after_each(Tail(p)) IN
         IF ~rest.ok THEN rest
         ELSE Ok(p[1][1] \o <<"=">> \o p[1][2] \o <<"&">> \o rest.val[1])

\* a join_params that renders the pairs last to first
RECURSIVE join_params_last_first(_)
join_params_last_first(p) ==
    IF Len(p) <= 1 THEN join_params_loop(p, 1, << >>)
    ELSE LET rest == join_params_last_first(Tail(p)) IN
         IF ~rest.ok THEN rest
         ELSE Ok(rest.val[1] \o <<"&">> \o p[1][1] \o <<"=">> \o p[1][2])

join_params(p) ==
    IF p = << >> THEN Ok(<< >>) ELSE join_params_loop(p, 1, << >>)

\* "{scheme}://{domain}/{path}", the part the four formats of join share
JoinHead(self, path) ==
    Scheme_fmt(self.scheme) \o <<":", "/", "/">> \o self.domain \o <<"/">> \o path

\* a join that appends the token as a signature parameter
Url_join_renders_token(self) ==
    IF self.path = None
    THEN Err(JoinError("cannot join when path is None"))
    ELSE LET path == self.path[1]
             q == join_params(self.params)
             s == IF self.token = None THEN << >>
                  ELSE <<"&", "s", "=">> \o self.token[1]
         IN  IF ~q.ok THEN q
             ELSE LET query == q.val[1] IN
                  IF self.lib # << >> /\ query # << >>
                  THEN Ok(JoinHead(self, path) \o <<"?">> \o self.lib \o <<"&">> \o query \o s)
                  ELSE IF self.lib # << >>
                  THEN Ok(JoinHead(self, path) \o <<"?">> \o self.lib \o s)
                  ELSE IF query # << >>
                  THEN Ok(JoinHead(self, path) \o <<"?">> \o query \o s)
                  ELSE Ok(JoinHead(self, path) \o s)

\* a join whose (false, true) arm renders only the path, leaving the lib out
Url_join_drops_lib(self) ==
    IF self.path = None
    THEN Err(JoinError("cannot join when path is None"))
    ELSE LET path == self.path[1]
             q == join_params(self.params)
         IN  IF ~q.ok THEN q
             ELSE LET query == q.val[1] IN
                  IF self.lib # << >> /\ query # << >>
                  THEN Ok(JoinHead(self, path) \o <<"?">> \o self.lib \o <<"&">> \o query)
                  ELSE IF self.lib = << >> /\ query # << >>
                  THEN Ok(JoinHead(self, path) \o <<"?">> \o query)
                  ELSE Ok(JoinHead(self, path))

\* a join that renders an absent path as the empty string instead of panicking
Url_join_path_or_default(self) ==
    LET path == IF self.path = None THEN << >> ELSE self.path[1]
        q == join_params(self.params)
    IN  IF ~q.ok THEN q
        ELSE LET query == q.val[1] IN
             IF self.lib # << >> /\ query # << >>
             THEN Ok(JoinHead(self, path) \o <<"?">> \o self.lib \o <<"&">> \o query)
             ELSE IF self.lib # << >> /\ query = << >>
             THEN Ok(JoinHead(self, path) \o <<"?">> \o self.lib)
             ELSE IF self.lib = << >> /\ query # << >>
             THEN Ok(JoinHead(self, path) \o <<"?">> \o query)
             ELSE Ok(JoinHead(self, path))

Url_join(self) ==
    IF self.path = None
    THEN Err(JoinError("cannot join when path is None"))
    ELSE LET path == self.path[1]
             q == join_params(self.params)
         IN  IF ~q.ok THEN q
             ELSE LET query == q.val[1] IN
                  IF self.lib # << >> /\ query # << >>
                  THEN Ok(JoinHead(self, path) \o <<"?">> \o self.lib \o <<"&">> \o query)
                  ELSE IF self.lib # << >> /\ query = << >>
                  THEN Ok(JoinHead(self, path) \o <<"?">> \o self.lib)
                  ELSE IF self.lib = << >> /\ query # << >>
                  THEN Ok(JoinHead(self, path) \o <<"?">> \o query)
                  ELSE Ok(JoinHead(self, path))

(***************************************************************************)
(* src/imgix/lib.rs: the copy of Url::join kept in the crate root.  Its    *)
(* join_params is the same text as the one of url/mod.rs.                  *)
(***************************************************************************)
lib_rs_Url_join(self) ==
    IF self.path = None
    THEN Err(Panic("failed: cannot Url::join when path is None."))
    ELSE LET path == self.path[1]
             q == join_params(self.params)
         IN  IF ~q.ok THEN q
             ELSE LET query == q.val[1] IN
                  IF self.lib # << >> /\ self.params # << >>
                  THEN Ok(JoinHead(self, path) \o <<"?">> \o self.lib \o query)
                  ELSE IF self.lib # << >> /\ self.params = << >>
                  THEN Ok(JoinHead(self, path))
                  ELSE IF self.lib = << >> /\ self.params # << >>
                  THEN Ok(JoinHead(self, path) \o <<"?">> \o query)
                  ELSE Ok(JoinHead(self, path))

(***************************************************************************)
(* Read accessors of Url that source_set/mod.rs calls.                     *)
(***************************************************************************)
get_params(self) == self.params

has_params(self) == self.params # << >>

(***************************************************************************)
(* u32::to_string and [String]::join, as the srcset generator uses them.   *)
(***************************************************************************)
Digit(d) == <<"0", "1", "2", "3", "4", "5", "6", "7", "8", "9">>[d + 1]

RECURSIVE to_string(_)
to_string(n) ==
    IF n < 10 THEN <<Digit(n)>> ELSE to_string(n \div 10) \o <<Digit(n % 10)>>

\* v.join(sep): the separator goes before every item but the first
RECURSIVE slice_join_loop(_, _, _, _)
slice_join_loop(v, sep, i, result) ==
    IF i > Len(v) THEN result
    ELSE slice_join_loop(v, sep, i + 1,
                         (IF i > 1 THEN result \o sep ELSE result) \o v[i])

slice_join(v, sep) == slice_join_loop(v, sep, 1, << >>)

(***************************************************************************)
(* src/imgix/source_set/mod.rs: Config.                                    *)
(***************************************************************************)
Action == {"ArtDirection", "PixelDensity", "Viewport"}

Config_default ==
    [scheme |-> None, domain |-> None, path |-> None, params |-> None,
     lib |-> None, token |-> None, targets |-> None, ratios |-> None,
     qualities |-> None, use_variable_quality |-> None]

set_scheme(self, s) == [self EXCEPT !.scheme = Some(s)]

set_domain(self, d) == [self EXCEPT !.domain = Some(d)]

set_path(self, p) == [self EXCEPT !.path = Some(p)]

\* a set_params that appends to the list already stored
set_params_appends(self, params) ==
    [self EXCEPT !.params = IF @ = None THEN Some(params) ELSE Some(@[1] \o params)]

set_params(self, params) == [self EXCEPT !.params = Some(params)]

set_ratios(self, ratios) == [self EXCEPT !.ratios = Some(ratios)]

get_ratios(self) ==
    IF self.ratios = None THEN SRCSET_TARGET_DPR_RATIOS ELSE self.ratios[1]

\* a set_targets that keeps the first list it was given
set_targets_keeps_first(self, targets) ==
    IF self.targets = None THEN [self EXCEPT !.targets = Some(targets)] ELSE self

set_targets(self, targets) == [self EXCEPT !.targets = Some(targets)]

get_targets(self) ==
    IF self.targets = None THEN SRCSET_TARGET_WIDTHS ELSE self.targets[1]

set_qualities(self, qualities) == [self EXCEPT !.qualities = Some(qualities)]

get_qualities(self) ==
    IF self.qualities = None THEN SRCSET_DPR_QUALITIES ELSE self.qualities[1]

set_use_variable_quality(self, state) ==
    [self EXCEPT !.use_variable_quality = Some(state)]

get_use_variable_quality(self) ==
    IF self.use_variable_quality = None THEN TRUE ELSE self.use_variable_quality[1]

\* a to_url that takes the domain as optional and starts from Url::default()
to_url_domain_optional(self) ==
    IF self.path = None
    THEN Err(Panic("neither domain nor path can be None"))
    ELSE LET new == IF self.domain = None THEN Ok(Url_default)
                    ELSE Url_new(self.domain[1])
         IN  IF ~new.ok THEN new
             ELSE LET pathed == Url_path(new.val[1], self.path[1]) IN
                  IF ~pathed.ok THEN pathed
                  ELSE Url_params(pathed.val[1],
                                  IF self.params = None THEN << >> ELSE self.params[1])

\* Url::new(&domain).path(&path).params(self.params.unwrap_or_default()): a link
\* of the chain that panics ends it
to_url(self) ==
    IF self.domain = None \/ self.path = None
    THEN Err(Panic("neither domain nor path can be None"))
    ELSE LET new == Url_new(self.domain[1]) IN
         IF ~new.ok THEN new
         ELSE LET pathed == Url_path(new.val[1], self.path[1]) IN
              IF ~pathed.ok THEN pathed
              ELSE Url_params(pathed.val[1],
                              IF self.params = None THEN << >> ELSE self.params[1])

(***************************************************************************)
(* src/imgix/source_set/mod.rs: the candidates.                            *)
(***************************************************************************)
\* (descriptor, key) of an action
DescriptorKey(action) ==
    IF action = "Viewport" THEN << <<"w">>, <<"w">> >>
    ELSE << <<"x">>, <<"d", "p", "r">> >>

\* a candidate that always opens the query itself
candidate_always_opens_query(u, value, action) ==
    IF action = "ArtDirection" THEN Err(Panic("not implemented"))
    ELSE LET dk == DescriptorKey(action)
             param == <<"?">> \o dk[2] \o <<"=">> \o value
             j == Url_join(u)
         IN  IF ~j.ok THEN j
             ELSE Ok(j.val[1] \o param \o <<" ">> \o value \o dk[1])

candidate(u, value, action) ==
    IF action = "ArtDirection" THEN Err(Panic("not implemented"))
    ELSE LET dk == DescriptorKey(action)
             param == (IF has_params(u) THEN <<"&">> ELSE <<"?">>)
                        \o dk[2] \o <<"=">> \o value
             j == Url_join(u)
         IN  IF ~j.ok THEN j
             ELSE Ok(j.val[1] \o param \o <<" ">> \o value \o dk[1])

\* a candidate_and that puts the extra segment after the dpr segment
candidate_and_more_last(u, value, action, more) ==
    IF action = "ArtDirection" THEN Err(Panic("not implemented"))
    ELSE LET dk == DescriptorKey(action)
             param == (IF has_params(u) THEN <<"&">> ELSE <<"?">>)
                        \o dk[2] \o <<"=">> \o value
             j == Url_join(u)
         IN  IF ~j.ok THEN j
             ELSE Ok(j.val[1] \o param \o more \o <<" ">> \o value \o dk[1])

candidate_and(u, value, action, more) ==
    IF action = "ArtDirection" THEN Err(Panic("not implemented"))
    ELSE LET dk == DescriptorKey(action)
             param == (IF has_params(u) THEN <<"&">> ELSE <<"?">>)
                        \o dk[2] \o <<"=">> \o value
             j == Url_join(u)
         IN  IF ~j.ok THEN j
             ELSE Ok(j.val[1] \o more \o param \o <<" ">> \o value \o dk[1])

\* the loop of create_srcset from its i-th target on
RECURSIVE create_srcset_loop(_, _, _, _, _)
create_srcset_loop(u, targets, action, i, srcset) ==
    IF i > Len(targets) THEN Ok(srcset)
    ELSE LET c == candidate(u, to_string(targets[i]), action) IN
         IF c.ok
         THEN create_srcset_loop(u, targets, action, i + 1, Append(srcset, c.val[1]))
         ELSE c

create_srcset(u, targets, action) ==
    create_srcset_loop(u, targets, action, 1, << >>)

\* the loop of create_variable_quality_set over ratios.iter().zip(qualities)
RECURSIVE create_variable_quality_set_loop(_, _, _, _, _, _)
create_variable_quality_set_loop(u, ratios, action, qualities, i, srcset) ==
    IF i > Len(ratios) \/ i > Len(qualities) THEN Ok(srcset)
    ELSE LET more == <<"&", "q", "=">> \o to_string(qualities[i])
             c == candidate_and(u, to_string(ratios[i]), action, more)
         IN  IF c.ok
             THEN create_variable_quality_set_loop(u, ratios, action, qualities,
                                                   i + 1, Append(srcset, c.val[1]))
             ELSE c

create_variable_quality_set(u, ratios, action, qualities) ==
    create_variable_quality_set_loop(u, ratios, action, qualities, 1, << >>)

(***************************************************************************)
(* src/imgix/source_set/mod.rs: SourceSet.                                 *)
(***************************************************************************)
SourceSet_default ==
    [src |-> None, action |-> None, srcset |-> None, sizes |-> None,
     media |-> None, config |-> Config_default]

SourceSet_new == SourceSet_default

SourceSet_scheme(self, s) == [self EXCEPT !.config = set_scheme(@, s)]

SourceSet_domain(self, d) == [self EXCEPT !.config = set_domain(@, d)]

SourceSet_path(self, p) == [self EXCEPT !.config = set_path(@, p)]

SourceSet_params(self, params) == [self EXCEPT !.config = set_params(@, params)]

SourceSet_ratios(self, ratios) == [self EXCEPT !.config = set_ratios(@, ratios)]

SourceSet_targets(self, targets) == [self EXCEPT !.config = set_targets(@, targets)]

SourceSet_variable_quality(self, state) ==
    [self EXCEPT !.config = set_use_variable_quality(@, state)]

SourceSet_qualities(self, qualities) ==
    [self EXCEPT !.config = set_qualities(@, qualities)]

uses_variable_quality(self) == get_use_variable_quality(self.config)

SourceSet_get_ratios(self) == get_ratios(self.config)

SourceSet_get_targets(self) == get_targets(self.config)

SourceSet_get_qualities(self) == get_qualities(self.config)

\* the loop of infer_action over the params from the i-th on
RECURSIVE infer_action_loop(_, _, _, _, _)
infer_action_loop(params, i, has_width, has_height, has_aspect_ratio) ==
    IF i > Len(params)
    THEN IF has_width \/ (has_aspect_ratio /\ has_height) THEN "PixelDensity"
         ELSE "Viewport"
    ELSE infer_action_loop(params, i + 1,
                           has_width \/ params[i][1] = <<"w">>,
                           has_height \/ params[i][1] = <<"h">>,
                           has_aspect_ratio \/ params[i][1] = <<"a", "r">>)

\* an infer_action that takes a height alone for a fixed footprint
infer_action_height_alone(u) ==
    IF \E i \in 1..Len(u.params) : u.params[i][1] \in {<<"w">>, <<"h">>}
    THEN "PixelDensity" ELSE "Viewport"

\* an infer_action that classifies a lone fit parameter as art direction
infer_action_art_direction(u) ==
    IF \E i \in 1..Len(u.params) : u.params[i][1] = <<"f", "i", "t">>
    THEN "ArtDirection"
    ELSE infer_action_loop(get_params(u), 1, FALSE, FALSE, FALSE)

\* an infer_action that takes every Url for a fixed footprint
infer_action_always_pixel_density(u) == "PixelDensity"

infer_action(u) == infer_action_loop(get_params(u), 1, FALSE, FALSE, FALSE)

\* a build_pixel_set that never looks at the variable-quality switch
build_pixel_set_always_variable(self, u, action) ==
    create_variable_quality_set(u, get_ratios(self.config), action,
                                get_qualities(self.config))

build_pixel_set(self, u, action) ==
    IF uses_variable_quality(self)
    THEN create_variable_quality_set(u, get_ratios(self.config), action,
                                     get_qualities(self.config))
    ELSE create_srcset(u, get_ratios(self.config), action)

build_viewport_set(self, u, action) ==
    create_srcset(u, get_targets(self.config), action)

\* the match on the action in build_srcset
build_srcset_match(self, u, action) ==
    IF action = "PixelDensity" THEN build_pixel_set(self, u, action)
    ELSE IF action = "Viewport" THEN build_viewport_set(self, u, action)
    ELSE Err(Panic("not implemented"))

build_srcset(self) ==
    LET u == to_url(self.config) IN
    IF ~u.ok THEN u
    ELSE build_srcset_match(self, u.val[1], infer_action(u.val[1]))

srcset_attr(self) ==
    LET b == build_srcset(self) IN
    IF b.ok THEN Ok(slice_join(b.val[1], <<",", "\n">>)) ELSE b

\* the match on the action in From<Url>::from
from_match(u, action) ==
    IF action = "Viewport" THEN create_srcset(u, SRCSET_TARGET_WIDTHS, action)
    ELSE IF action = "PixelDensity"
    THEN create_srcset(u, SRCSET_TARGET_DPR_RATIOS, action)
    ELSE Err(Panic("not implemented"))

\* a from that builds the fixed-footprint candidates with the quality table
SourceSet_from_variable_quality(u) ==
    LET action == infer_action(u)
        srcset == IF action = "Viewport"
                  THEN create_srcset(u, SRCSET_TARGET_WIDTHS, action)
                  ELSE create_variable_quality_set(u, SRCSET_TARGET_DPR_RATIOS, action,
                                                   SRCSET_DPR_QUALITIES)
    IN  IF ~srcset.ok THEN srcset
        ELSE Ok([SourceSet_default EXCEPT !.src = Some(u), !.action = Some(action),
                                          !.srcset = Some(srcset.val[1])])

\* impl From<Url> for SourceSet
SourceSet_from(u) ==
    LET action == infer_action(u)
        srcset == from_match(u, action)
    IN  IF ~srcset.ok THEN srcset
        ELSE Ok([SourceSet_default EXCEPT !.src = Some(u), !.action = Some(action),
                                          !.srcset = Some(srcset.val[1])])

(***************************************************************************)
(* The inputs the callers of the Url builder are given.                    *)
(***************************************************************************)
Domains == {<< >>, <<"a", ".", "i", "o">>, <<"b", ".", "i", "o">>}
Paths == {<< >>, <<"i", ".", "p", "n", "g">>, <<"i", "?">>}
Keys == {<< >>, <<"w">>, <<"h">>}
Values == {<< >>, <<"3", "2">>, <<"4", "&">>}
Libs == {<< >>, <<"l", "=", "1">>, <<"l", "&">>}
Tokens == {<<"t">>}
Pairs == {<<k, v>> : k \in Keys, v \in Values}

\* every sequence over S of length at most n
SeqsUpTo(S, n) == UNION {[1..m -> S] : m \in 0..n}

NoCall == [op |-> "none", arg |-> << >>]

(***************************************************************************)
(* The Url builder as a state machine: the caller holds one Url value and  *)
(* passes it through take-and-return operations; an operation that panics  *)
(* leaves the caller with no value.                                        *)
(***************************************************************************)
UrlInit ==
    /\ url = None
    /\ call = NoCall
    /\ err = None
    /\ joined = None
    /\ supplied = << >>
    /\ pathSet = FALSE

\* the caller's state after a take-and-return operation that returned r
Returned(op, arg, r) ==
    /\ url' = r.val
    /\ err' = r.err
    /\ call' = [op |-> op, arg |-> arg]
    /\ joined' = None

New ==
    \E d \in Domains :
        /\ Returned("new", d, Url_new(d))
        /\ supplied' = << >>
        /\ pathSet' = FALSE
        /\ UNCHANGED svars

Default ==
    /\ Returned("default", << >>, Ok(Url_default))
    /\ supplied' = << >>
    /\ pathSet' = FALSE
    /\ UNCHANGED svars

Domain ==
    \E d \in Domains :
        /\ url # None
        /\ Returned("domain", d, Url_domain(url[1], d))
        /\ UNCHANGED <<supplied, pathSet>>
        /\ UNCHANGED svars

Path ==
    \E p \in Paths :
        /\ url # None
        /\ LET r == Url_path(url[1], p) IN
            /\ Returned("path", p, r)
            /\ pathSet' = (pathSet \/ r.ok)
        /\ UNCHANGED supplied
        /\ UNCHANGED svars

Param ==
    \E k \in Keys, v \in Values :
        /\ url # None
        /\ Len(url[1].params) < MaxParams
        /\ LET r == Url_param(url[1], k, v) IN
            /\ Returned("param", <<k, v>>, r)
            /\ supplied' = IF r.ok THEN Append(supplied, <<k, v>>) ELSE supplied
        /\ UNCHANGED pathSet
        /\ UNCHANGED svars

Params ==
    /\ url # None
    /\ \E p \in SeqsUpTo(Pairs, MaxParams - Len(url[1].params)) :
        LET r == Url_params(url[1], p) IN
            /\ Returned("params", p, r)
            /\ supplied' = IF r.ok THEN supplied \o p ELSE supplied
    /\ UNCHANGED pathSet
    /\ UNCHANGED svars

Lib ==
    \E l \in Libs :
        /\ url # None
        /\ Returned("lib", l, Url_lib(url[1], l))
        /\ UNCHANGED <<supplied, pathSet>>
        /\ UNCHANGED svars

Token ==
    \E t \in Tokens :
        /\ url # None
        /\ Returned("token", t, Url_token(url[1], t))
        /\ UNCHANGED <<supplied, pathSet>>
        /\ UNCHANGED svars

SetScheme ==
    \E s \in Scheme :
        /\ url # None
        /\ Returned("scheme", s, Url_scheme(url[1], s))
        /\ UNCHANGED <<supplied, pathSet>>
        /\ UNCHANGED svars

Ix ==
    /\ url # None
    /\ Returned("ix", << >>, Url_ix(url[1]))
    /\ UNCHANGED <<supplied, pathSet>>
    /\ UNCHANGED svars

\* join(&self) borrows the Url: the caller keeps it whatever join does
Join ==
    /\ url # None
    /\ LET r == Url_join(url[1]) IN
        /\ joined' = r.val
        /\ err' = r.err
    /\ call' = [op |-> "join", arg |-> << >>]
    /\ UNCHANGED <<url, supplied, pathSet>>
    /\ UNCHANGED svars

UrlNext ==
    \/ New \/ Default \/ Domain \/ Path \/ Param \/ Params
    \/ Lib \/ Token \/ SetScheme \/ Ix \/ Join

\* no setter with a getter has been called yet
NeverSet == [ratios |-> None, targets |-> None, qualities |-> None,
             variable_quality |-> None]

\* nothing was given to the Config yet
NoHist == [domain |-> None, path |-> None, params |-> << >>]

SrcInit ==
    /\ ss = None
    /\ attr = None
    /\ serr = None
    /\ scall = NoCall
    /\ ret = None
    /\ lastSet = NeverSet
    /\ cfg = None
    /\ cfgHist = NoHist

Init == UrlInit /\ SrcInit

Next == UrlNext

\* the Url builder
Spec == Init /\ [][Next]_vars

(***************************************************************************)
(* The SourceSet builder as a state machine: the caller holds one          *)
(* SourceSet, passes it through the take-and-return setters, and asks for  *)
(* its srcset attribute.                                                   *)
(***************************************************************************)
CfgDomains == {<< >>, <<"a", ".", "i", "o">>}
CfgPaths == {<< >>, <<"i", ".", "p", "n", "g">>}
\* the 'static parameter slices the callers hold
W32 == << <<"w">>, <<"3", "2">> >>
H32 == << <<"h">>, <<"3", "2">> >>
AR1 == << <<"a", "r">>, <<"1">> >>
FIT == << <<"f", "i", "t">>, <<"c">> >>
CfgParamLists ==
    {<< >>, <<W32>>, <<H32>>, <<AR1, H32>>, <<FIT>>, <<FIT, W32>>,
     << << << >>, <<"3", "2">> >> >>, << H32, << <<"w">>, << >> >> >>}
CfgWidths == {64, 1024}
CfgRatios == {<<2, 4, 6, 8, 10>>, <<1, 3, 5, 7, 9>>}
CfgQualities == {<<100, 90, 80, 70, 60>>, <<10, 20, 30, 40, 50>>}

\* the caller's state after a take-and-return setter returned s; h is the
\* history of setter arguments after the call
SsReturned(s, h) ==
    /\ ss' = Some(s)
    /\ attr' = None
    /\ serr' = None
    /\ scall' = NoCall
    /\ ret' = None
    /\ lastSet' = h
    /\ UNCHANGED <<cfg, cfgHist>>
    /\ UNCHANGED uvars

SsNew ==
    /\ ss' = Some(SourceSet_new)
    /\ attr' = None
    /\ serr' = None
    /\ scall' = NoCall
    /\ ret' = None
    /\ lastSet' = NeverSet
    /\ UNCHANGED <<cfg, cfgHist>>
    /\ UNCHANGED uvars

SsScheme == \E s \in Scheme : ss # None /\ SsReturned(SourceSet_scheme(ss[1], s), lastSet)

SsDomain == \E d \in CfgDomains : ss # None /\ SsReturned(SourceSet_domain(ss[1], d), lastSet)

SsPath == \E p \in CfgPaths : ss # None /\ SsReturned(SourceSet_path(ss[1], p), lastSet)

SsParams ==
    \E p \in CfgParamLists : ss # None /\ SsReturned(SourceSet_params(ss[1], p), lastSet)

SsRatios ==
    \E r \in CfgRatios :
        /\ ss # None
        /\ SsReturned(SourceSet_ratios(ss[1], r), [lastSet EXCEPT !.ratios = Some(r)])

SsTargets ==
    \E t \in SeqsUpTo(CfgWidths, MaxTargets) :
        /\ ss # None
        /\ SsReturned(SourceSet_targets(ss[1], t), [lastSet EXCEPT !.targets = Some(t)])

SsVariableQuality ==
    \E b \in BOOLEAN :
        /\ ss # None
        /\ SsReturned(SourceSet_variable_quality(ss[1], b),
                      [lastSet EXCEPT !.variable_quality = Some(b)])

SsQualities ==
    \E q \in CfgQualities :
        /\ ss # None
        /\ SsReturned(SourceSet_qualities(ss[1], q), [lastSet EXCEPT !.qualities = Some(q)])

\* srcset_attr(&self) borrows the SourceSet: the caller keeps it
SrcsetAttr ==
    /\ ss # None
    /\ LET r == srcset_attr(ss[1]) IN
        /\ attr' = r.val
        /\ serr' = r.err
    /\ scall' = NoCall
    /\ ret' = None
    /\ UNCHANGED <<ss, lastSet, cfg, cfgHist>>
    /\ UNCHANGED uvars

SrcsetNext ==
    \/ SsNew \/ SsScheme \/ SsDomain \/ SsPath \/ SsParams \/ SsRatios
    \/ SsTargets \/ SsVariableQuality \/ SsQualities \/ SrcsetAttr

SpecSrcset == Init /\ [][SrcsetNext]_vars

(***************************************************************************)
(* Url::join_params applied to parameter lists: an associated function,   *)
(* called without a Url.                                                   *)
(***************************************************************************)
JoinKeys == {<< >>, <<"w">>, <<"h">>, <<"k", "=">>}
JoinValues == {<< >>, <<"3", "2">>, <<"4", "&">>, <<"x", "=", "y">>}
JoinPairs == {<<k, v>> : k \in JoinKeys, v \in JoinValues}
\* the longest parameter list given to join_params
MaxJoinLen == 3

\* the caller holds a parameter list, kept in `supplied`
JoinParamsInit ==
    /\ supplied \in SeqsUpTo(JoinPairs, MaxJoinLen)
    /\ url = None
    /\ call = NoCall
    /\ err = None
    /\ joined = None
    /\ pathSet = FALSE
    /\ SrcInit

JoinParams ==
    LET r == join_params(supplied) IN
    /\ call' = [op |-> "join_params", arg |-> supplied]
    /\ joined' = r.val
    /\ err' = r.err
    /\ UNCHANGED <<url, supplied, pathSet>>
    /\ UNCHANGED svars

JoinParamsNext == JoinParams

SpecJoinParams == JoinParamsInit /\ [][JoinParamsNext]_vars

(***************************************************************************)
(* The Config of the srcset module: its domain, path and params setters    *)
(* and to_url, which materialises the Url the candidates are made from.    *)
(***************************************************************************)
\* the caller's state after a Config setter returned c; h is the history of
\* setter arguments after the call
CfgReturned(c, h) ==
    /\ cfg' = Some(c)
    /\ cfgHist' = h
    /\ scall' = NoCall
    /\ ret' = None
    /\ serr' = None
    /\ UNCHANGED <<ss, attr, lastSet>>
    /\ UNCHANGED uvars

\* the last two of the lists given to set_params, p being the newest
LastTwo(ps, p) == IF ps = << >> THEN <<p>> ELSE <<ps[Len(ps)], p>>

CfgDefault ==
    /\ cfg' = Some(Config_default)
    /\ cfgHist' = NoHist
    /\ scall' = NoCall
    /\ ret' = None
    /\ serr' = None
    /\ UNCHANGED <<ss, attr, lastSet>>
    /\ UNCHANGED uvars

SetDomain ==
    \E d \in Domains :
        /\ cfg # None
        /\ CfgReturned(set_domain(cfg[1], d), [cfgHist EXCEPT !.domain = Some(d)])

SetPath ==
    \E p \in Paths :
        /\ cfg # None
        /\ CfgReturned(set_path(cfg[1], p), [cfgHist EXCEPT !.path = Some(p)])

SetParams ==
    \E p \in CfgParamLists :
        /\ cfg # None
        /\ CfgReturned(set_params(cfg[1], p),
                       [cfgHist EXCEPT !.params = LastTwo(@, p)])

\* to_url(&self) borrows the Config and returns a Url or panics
ToUrl ==
    /\ cfg # None
    /\ LET r == to_url(cfg[1]) IN
        /\ ret' = r.val
        /\ serr' = r.err
    /\ scall' = [op |-> "to_url", arg |-> << >>]
    /\ UNCHANGED <<ss, attr, lastSet, cfg, cfgHist>>
    /\ UNCHANGED uvars

ConfigNext == CfgDefault \/ SetDomain \/ SetPath \/ SetParams \/ ToUrl

SpecConfig == Init /\ [][ConfigNext]_vars

(***************************************************************************)
(* The getters of the SourceSet, with the four setters they read back.     *)
(***************************************************************************)
\* a getter borrows the SourceSet and returns v
Got(op, v) ==
    /\ ss # None
    /\ scall' = [op |-> op, arg |-> << >>]
    /\ ret' = Some(v)
    /\ attr' = None
    /\ serr' = None
    /\ UNCHANGED <<ss, lastSet, cfg, cfgHist>>
    /\ UNCHANGED uvars

GetRatios == ss # None /\ Got("get_ratios", SourceSet_get_ratios(ss[1]))

GetTargets == ss # None /\ Got("get_targets", SourceSet_get_targets(ss[1]))

GetQualities == ss # None /\ Got("get_qualities", SourceSet_get_qualities(ss[1]))

UsesVariableQuality ==
    ss # None /\ Got("uses_variable_quality", uses_variable_quality(ss[1]))

GettersNext ==
    \/ SsNew \/ SsRatios \/ SsTargets \/ SsVariableQuality \/ SsQualities
    \/ GetRatios \/ GetTargets \/ GetQualities \/ UsesVariableQuality

SpecGetters == Init /\ [][GettersNext]_vars

(***************************************************************************)
(* SourceSet::from applied to the Urls the builder makes with a domain, a  *)
(* path and any list of valid parameters.                                  *)
(***************************************************************************)
FromKeys == {<<"w">>, <<"h">>, <<"a", "r">>, <<"f", "i", "t">>, <<"w", "h">>}
FromPairs == {<<k, <<"1">> >> : k \in FromKeys}
\* the longest parameter list of a Url given to SourceSet::from
MaxFromParams == 3

FromInit ==
    /\ \E p \in SeqsUpTo(FromPairs, MaxFromParams), ix \in BOOLEAN :
        LET u == Url_params(Url_path(Url_new(<<"a", ".", "i", "o">>).val[1],
                                     <<"i", ".", "p", "n", "g">>).val[1], p).val[1]
        IN  /\ url = IF ix THEN Url_ix(u).val ELSE Some(u)
            /\ supplied = p
    /\ call = NoCall
    /\ err = None
    /\ joined = None
    /\ pathSet = TRUE
    /\ SrcInit

\* from(url) takes the Url: it is moved into the SourceSet
From ==
    /\ url # None
    /\ LET r == SourceSet_from(url[1]) IN
        /\ ss' = r.val
        /\ serr' = r.err
    /\ url' = None
    /\ attr' = None
    /\ scall' = [op |-> "from", arg |-> url[1]]
    /\ ret' = None
    /\ UNCHANGED <<call, err, joined, supplied, pathSet, lastSet, cfg, cfgHist>>

\* the values and the quality the free functions are applied to
CandidateValues == {1, 8192}
CandidateQualities == {75}

\* the caller's state after a free function of the module returned r
FreeReturned(op, arg, r) ==
    /\ scall' = [op |-> op, arg |-> arg]
    /\ ret' = r.val
    /\ serr' = r.err
    /\ UNCHANGED <<ss, attr, lastSet, cfg, cfgHist>>
    /\ UNCHANGED uvars

\* candidate(&url, value, &action), as the closure of create_srcset calls it
Candidate ==
    \E v \in CandidateValues, a \in Action :
        /\ url # None
        /\ FreeReturned("candidate", [value |-> v, action |-> a],
                        candidate(url[1], to_string(v), a))

\* candidate_and(&url, value, &action, more), as the closure of
\* create_variable_quality_set calls it
CandidateAnd ==
    \E v \in CandidateValues, q \in CandidateQualities, a \in Action :
        /\ url # None
        /\ FreeReturned("candidate_and", [value |-> v, action |-> a, quality |-> q],
                        candidate_and(url[1], to_string(v), a,
                                      <<"&", "q", "=">> \o to_string(q)))

\* srcset_attr is asked of the SourceSet that from returned
FromNext == From \/ Candidate \/ CandidateAnd \/ SrcsetAttr

SpecFrom == FromInit /\ [][FromNext]_vars

(***************************************************************************)
(* Vocabulary of the properties.                                           *)
(***************************************************************************)
Last(s) == s[Len(s)]

EndsWith(s, c) == s # << >> /\ Last(s) = c

IsPrefix(p, s) == Len(p) <= Len(s) /\ SubSeq(s, 1, Len(p)) = p

IsSuffix(p, s) == Len(p) <= Len(s) /\ SubSeq(s, Len(s) - Len(p) + 1, Len(s)) = p

\* "k0=v0&k1=v1&..." for a non-empty list of pairs, read off the grammar of the query
RECURSIVE PairsText(_)
PairsText(ps) ==
    IF Len(ps) = 1 THEN ps[1][1] \o <<"=">> \o ps[1][2]
    ELSE ps[1][1] \o <<"=">> \o ps[1][2] \o <<"&">> \o PairsText(Tail(ps))

HTTPS == <<"h", "t", "t", "p", "s">>
HTTP == <<"h", "t", "t", "p">>

\* "{scheme}://{domain}/{path}" of a Url with a path
HeadText(u) ==
    (IF u.scheme = "Http" THEN HTTP ELSE HTTPS)
        \o <<":", "/", "/">> \o u.domain \o <<"/">> \o u.path[1]

\* the Url the caller holds was just joined, and join returned a string
JoinReturned == call.op = "join" /\ url # None /\ joined # None

\* the four forms of the rendered Url, by (lib empty?, params empty?)
FourForms(u, s) ==
    LET query == join_params(u.params).val[1] IN
    /\ (u.lib # << >> /\ u.params # << >>) =>
            s = HeadText(u) \o <<"?">> \o u.lib \o <<"&">> \o query
    /\ (u.lib # << >> /\ u.params = << >>) => s = HeadText(u) \o <<"?">> \o u.lib
    /\ (u.lib = << >> /\ u.params # << >>) => s = HeadText(u) \o <<"?">> \o query
    /\ (u.lib = << >> /\ u.params = << >>) => s = HeadText(u)

\* the component join renders last: the last value, else the lib, else the path
LastComponent(u) ==
    IF u.params # << >> THEN u.params[Len(u.params)][2]
    ELSE IF u.lib # << >> THEN u.lib
    ELSE u.path[1]

(***************************************************************************)
(* C1 as stated: join returns one of the four forms, and the result never  *)
(* ends in '?' or '&'.  Refuted by a path, lib or value that itself ends   *)
(* in one of the two characters (only emptiness is validated).             *)
(***************************************************************************)
C1_JoinNeverEndsInSeparator ==
    JoinReturned =>
        /\ FourForms(url[1], joined[1])
        /\ ~EndsWith(joined[1], "?")
        /\ ~EndsWith(joined[1], "&")

(***************************************************************************)
(* C1, amended: join returns exactly the form chosen by (lib empty?,       *)
(* params empty?), and it appends no separator after the last component:   *)
(* the result ends in '?' or '&' only when the component rendered last     *)
(* (the last value, else the lib, else the path) ends in that character.   *)
(***************************************************************************)
C1_JoinFourForms ==
    JoinReturned =>
        /\ FourForms(url[1], joined[1])
        /\ \A c \in {"?", "&"} :
                EndsWith(joined[1], c) => EndsWith(LastComponent(url[1]), c)

\* join rendered an http Url that has a lib and params, none ending in a separator
C1_Witness ==
    /\ JoinReturned
    /\ url[1].lib # << >>
    /\ url[1].params # << >>
    /\ url[1].scheme = "Http"
    /\ ~EndsWith(joined[1], "&")

(***************************************************************************)
(* C2: join() returns a string if and only if a path(p) call has succeeded *)
(* on the Url; with no path it panics with JoinError and returns nothing,  *)
(* whatever the other fields hold.                                         *)
(***************************************************************************)
C2_JoinIffPath ==
    call.op = "join" =>
        /\ (joined # None) <=> pathSet
        /\ (joined # None) <=> (err = None)
        /\ ~pathSet => (err # None /\ err[1].kind = "JoinError")

\* join panicked on a Url whose every other field is set
C2_Witness ==
    /\ call.op = "join"
    /\ joined = None
    /\ err # None
    /\ url[1].domain # << >>
    /\ url[1].lib # << >>
    /\ url[1].params # << >>
    /\ url[1].token # None

(***************************************************************************)
(* C3: the stored params are the concatenation, in call order, of the      *)
(* pairs given to the successful param and params calls (nothing replaced, *)
(* reordered or de-duplicated), and the query join renders lists them in   *)
(* that order, repeated keys included.                                     *)
(***************************************************************************)
C3_ParamsInCallOrder ==
    /\ url # None => url[1].params = supplied
    /\ (JoinReturned /\ supplied # << >>) =>
            \/ IsSuffix(<<"?">> \o PairsText(supplied), joined[1])
            \/ IsSuffix(<<"&">> \o PairsText(supplied), joined[1])

\* join rendered two pairs with the same key and different values
C3_Witness ==
    /\ JoinReturned
    /\ Len(supplied) = 2
    /\ supplied[1][1] = supplied[2][1]
    /\ supplied[1][2] # supplied[2][2]

(***************************************************************************)
(* C4: new and domain panic with DomainError exactly on the empty domain,  *)
(* path with PathError exactly on the empty path, param and params with    *)
(* ParamError exactly when a key or a value is empty (the key is looked at *)
(* before the value); a panicking operation leaves no Url value, and every *)
(* other call returns one.                                                 *)
(***************************************************************************)
\* the first pair of p with an empty side, 0 if there is none
FirstInvalid(p) ==
    IF \E i \in 1..Len(p) : p[i][1] = << >> \/ p[i][2] = << >>
    THEN CHOOSE i \in 1..Len(p) :
            /\ p[i][1] = << >> \/ p[i][2] = << >>
            /\ \A j \in 1..(i - 1) : p[j][1] # << >> /\ p[j][2] # << >>
    ELSE 0

ParamErrorFor(kv) ==
    IF kv[1] = << >> THEN ParamError("key cannot be empty")
    ELSE ParamError("value cannot be empty")

C4_ValidatorsFailOnEmpty ==
    /\ call.op \in {"new", "domain"} =>
            /\ (err # None) <=> (call.arg = << >>)
            /\ err # None => err[1].kind = "DomainError"
    /\ call.op = "path" =>
            /\ (err # None) <=> (call.arg = << >>)
            /\ err # None => err[1].kind = "PathError"
    /\ call.op = "param" =>
            /\ (err # None) <=> (call.arg[1] = << >> \/ call.arg[2] = << >>)
            /\ err # None => err[1] = ParamErrorFor(call.arg)
    /\ call.op = "params" =>
            /\ (err # None) <=> (FirstInvalid(call.arg) # 0)
            /\ err # None => err[1] = ParamErrorFor(call.arg[FirstInvalid(call.arg)])
    /\ call.op \in {"new", "domain", "path", "param", "params"} =>
            ((err # None) <=> (url = None))

\* params panicked on its second pair, both sides empty, after a valid first pair
C4_Witness ==
    /\ call.op = "params"
    /\ Len(call.arg) = 2
    /\ call.arg[1][1] # << >> /\ call.arg[1][2] # << >>
    /\ call.arg[2] = << << >>, << >> >>
    /\ err = Some(ParamError("key cannot be empty"))
    /\ url = None

(***************************************************************************)
(* Vocabulary of the srcset properties.                                    *)
(***************************************************************************)
HasKey(ps, k) == \E i \in 1..Len(ps) : ps[i][1] = k

\* the params fix the rendered footprint: a width, or an aspect ratio and a height
FixesFootprint(ps) ==
    HasKey(ps, <<"w">>) \/ (HasKey(ps, <<"a", "r">>) /\ HasKey(ps, <<"h">>))

\* the items of cands with sep between them, none before the first or after the last
RECURSIVE SepText(_, _)
SepText(cands, sep) ==
    IF cands = << >> THEN << >>
    ELSE IF Len(cands) = 1 THEN cands[1]
    ELSE cands[1] \o sep \o SepText(Tail(cands), sep)

CommaNewline == <<",", "\n">>

\* the positions at which the candidates of a srcset attribute value start
CandidateStarts(s) ==
    IF s = << >> THEN {} ELSE {1} \cup {i + 1 : i \in {j \in 1..Len(s) : s[j] = "\n"}}

StartsAt(s, i, p) == i + Len(p) - 1 <= Len(s) /\ SubSeq(s, i, i + Len(p) - 1) = p

\* the config of the SourceSet the caller holds, and its params with their default
Cfg == ss[1].config
CfgParams == IF Cfg.params = None THEN << >> ELSE Cfg.params[1]
CfgTargets == IF Cfg.targets = None THEN SRCSET_TARGET_WIDTHS ELSE Cfg.targets[1]
CfgRatios5 == IF Cfg.ratios = None THEN <<1, 2, 3, 4, 5>> ELSE Cfg.ratios[1]
CfgQualities5 == IF Cfg.qualities = None THEN <<75, 50, 35, 23, 20>> ELSE Cfg.qualities[1]

\* srcset_attr() was the last call and returned a string
AttrReturned == ss # None /\ attr # None
\* srcset_attr() was the last call
AttrCalled == ss # None /\ (attr # None \/ serr # None)

\* {base}: the join() of the Url that to_url materialises from the config
Base == Url_join(to_url(Cfg).val[1]).val[1]

Min(a, b) == IF a <= b THEN a ELSE b

(***************************************************************************)
(* C5: infer_action returns PixelDensity if and only if some key is        *)
(* exactly "w", or some key is "ar" and some key is "h"; otherwise         *)
(* Viewport; ArtDirection is never returned.                               *)
(***************************************************************************)
C5_InferAction ==
    ss # None =>
        LET ps == ss[1].src[1].params IN
        /\ ss[1].action =
                Some(IF FixesFootprint(ps) THEN "PixelDensity" ELSE "Viewport")
        /\ ss[1].action # Some("ArtDirection")

\* a height and a key that only starts with "w", no width and no aspect ratio: Viewport
C5_Witness ==
    /\ ss # None
    /\ ss[1].action = Some("Viewport")
    /\ HasKey(ss[1].src[1].params, <<"h">>)
    /\ HasKey(ss[1].src[1].params, <<"w", "h">>)
    /\ ~HasKey(ss[1].src[1].params, <<"a", "r">>)

(***************************************************************************)
(* C6: for params that classify as Viewport, srcset_attr returns one       *)
(* candidate per target (default SRCSET_TARGET_WIDTHS), in the caller's    *)
(* order, "{base}?w={t} {t}w" with no params and "{base}&w={t} {t}w" with  *)
(* params, joined by ",\n"; with no params and the default targets, 31     *)
(* candidates from "?w=100 100w" to "?w=8192 8192w".                       *)
(***************************************************************************)
ViewportCandidate(t) ==
    Base \o (IF CfgParams = << >> THEN <<"?">> ELSE <<"&">>) \o <<"w", "=">>
         \o to_string(t) \o <<" ">> \o to_string(t) \o <<"w">>

C6_ViewportCandidates ==
    (AttrReturned /\ ~FixesFootprint(CfgParams)) =>
        /\ attr[1] = SepText([i \in 1..Len(CfgTargets) |-> ViewportCandidate(CfgTargets[i])],
                             CommaNewline)
        /\ Cardinality(CandidateStarts(attr[1])) = Len(CfgTargets)
        /\ (Cfg.targets = None /\ CfgParams = << >>) =>
                /\ Cardinality(CandidateStarts(attr[1])) = 31
                /\ IsPrefix(Base \o <<"?", "w", "=", "1", "0", "0", " ", "1", "0", "0", "w">>,
                            attr[1])
                /\ IsSuffix(Base \o <<"?", "w", "=", "8", "1", "9", "2", " ",
                                      "8", "1", "9", "2", "w">>, attr[1])

\* the caller's targets 1024, 64 (descending) on a Url with an "h" param
C6_Witness ==
    /\ AttrReturned
    /\ Cfg.targets = Some(<<1024, 64>>)
    /\ CfgParams = <<H32>>

(***************************************************************************)
(* C7: for params that classify as PixelDensity, with variable quality on  *)
(* (the default), srcset_attr returns min(len(ratios), len(qualities)) = 5 *)
(* candidates, the i-th "{base}&q={q}&dpr={r} {r}x" from the i-th ratio    *)
(* and the i-th quality, joined by ",\n".                                  *)
(***************************************************************************)
VariableQualityCandidate(r, q) ==
    Base \o <<"&", "q", "=">> \o to_string(q) \o <<"&", "d", "p", "r", "=">>
         \o to_string(r) \o <<" ">> \o to_string(r) \o <<"x">>

C7_VariableQualityCandidates ==
    (AttrReturned /\ FixesFootprint(CfgParams)
        /\ Cfg.use_variable_quality \in {None, Some(TRUE)}) =>
        /\ attr[1] = SepText([i \in 1..5 |->
                                VariableQualityCandidate(CfgRatios5[i], CfgQualities5[i])],
                             CommaNewline)
        /\ Cardinality(CandidateStarts(attr[1])) = Min(Len(CfgRatios5), Len(CfgQualities5))
        /\ Min(Len(CfgRatios5), Len(CfgQualities5)) = 5

\* variable quality left at its default, with the caller's qualities, on "ar" and "h"
C7_Witness ==
    /\ AttrReturned
    /\ CfgParams = <<AR1, H32>>
    /\ Cfg.use_variable_quality = None
    /\ Cfg.qualities # None
    /\ Cfg.ratios = None

(***************************************************************************)
(* C8: for params that classify as PixelDensity, after                     *)
(* variable_quality(false), srcset_attr returns one candidate per ratio in *)
(* order, "{base}&dpr={r} {r}x", with no q segment, whatever the           *)
(* qualities are.                                                          *)
(***************************************************************************)
PixelCandidate(r) ==
    Base \o <<"&", "d", "p", "r", "=">> \o to_string(r) \o <<" ">> \o to_string(r)
         \o <<"x">>

C8_FixedQualityCandidates ==
    (AttrReturned /\ FixesFootprint(CfgParams)
        /\ Cfg.use_variable_quality = Some(FALSE)) =>
        /\ attr[1] = SepText([i \in 1..Len(CfgRatios5) |-> PixelCandidate(CfgRatios5[i])],
                             CommaNewline)
        /\ Cardinality(CandidateStarts(attr[1])) = Len(CfgRatios5)

\* variable quality switched off with the caller's qualities and ratios set
C8_Witness ==
    /\ AttrReturned
    /\ FixesFootprint(CfgParams)
    /\ Cfg.use_variable_quality = Some(FALSE)
    /\ Cfg.qualities # None
    /\ Cfg.ratios # None

(***************************************************************************)
(* C9: the scheme given to the SourceSet is the scheme of every candidate: *)
(* after scheme(Http) every candidate starts with "http://", and with no   *)
(* scheme or Https every candidate starts with "https://".  The code's     *)
(* to_url never reads config.scheme, so this is violated.                  *)
(***************************************************************************)
C9_SchemeOverride ==
    AttrReturned =>
        \A i \in CandidateStarts(attr[1]) :
            IF Cfg.scheme = Some("Http")
            THEN StartsAt(attr[1], i, HTTP \o <<":", "/", "/">>)
            ELSE StartsAt(attr[1], i, HTTPS \o <<":", "/", "/">>)

(***************************************************************************)
(* C10: srcset_attr panics and returns no string whenever the config's     *)
(* domain or its path was never set, whatever else is set; it returns a    *)
(* string when both are set and non-empty and every param key and value is *)
(* non-empty.                                                              *)
(***************************************************************************)
C10_AttrNeedsDomainAndPath ==
    AttrCalled =>
        /\ (Cfg.domain = None \/ Cfg.path = None) => (attr = None /\ serr # None)
        /\ (/\ Cfg.domain # None /\ Cfg.domain # Some(<< >>)
            /\ Cfg.path # None /\ Cfg.path # Some(<< >>)
            /\ \A i \in 1..Len(CfgParams) :
                    CfgParams[i][1] # << >> /\ CfgParams[i][2] # << >>)
                => (attr # None /\ serr = None)

\* srcset_attr panicked for want of a domain, every other override being set
C10_Witness ==
    /\ AttrCalled
    /\ attr = None
    /\ Cfg.domain = None
    /\ Cfg.path = Some(<<"i", ".", "p", "n", "g">>)
    /\ Cfg.scheme # None
    /\ Cfg.params = Some(<<W32>>)
    /\ Cfg.targets # None
    /\ Cfg.ratios # None
    /\ Cfg.qualities # None
    /\ Cfg.use_variable_quality # None

(***************************************************************************)
(* C11: every string srcset_attr returns holds at least one candidate      *)
(* (candidate, then any number of ",\n" candidate): a config whose targets *)
(* list is empty is rejected, never rendered as an empty attribute value.  *)
(***************************************************************************)
C11_AttrHasACandidate ==
    AttrCalled =>
        /\ attr # None => (attr[1] # << >> /\ IsPrefix(HTTPS \o <<":", "/", "/">>, attr[1]))
        /\ (Cfg.targets = Some(<< >>) /\ ~FixesFootprint(CfgParams))
                => (attr = None /\ serr # None)

\* a free function of the module returned a string for the Url it was given
FreeCallReturned(op) == scall.op = op /\ url # None /\ ret # None

\* the Url the free functions were given, joined
UrlBase == Url_join(url[1]).val[1]

\* "{base}{sep}q={q}&dpr={r} {r}x"
QualityCandidate(base, sep, q, r) ==
    base \o <<sep, "q", "=">> \o to_string(q) \o <<"&", "d", "p", "r", "=">>
         \o to_string(r) \o <<" ">> \o to_string(r) \o <<"x">>

LastOr(h, default) == IF h = None THEN default ELSE h[1]

(***************************************************************************)
(* C13: each getter returns the documented default when its setter was     *)
(* never called (ratios [1,2,3,4,5], the 31 target widths, qualities       *)
(* [75,50,35,23,20], variable quality true) and the argument of the last   *)
(* call of its setter otherwise.                                           *)
(***************************************************************************)
C13_GettersReturnLastSet ==
    /\ scall.op = "get_ratios" => ret = Some(LastOr(lastSet.ratios, <<1, 2, 3, 4, 5>>))
    /\ scall.op = "get_targets" =>
            ret = Some(LastOr(lastSet.targets, SRCSET_TARGET_WIDTHS))
    /\ scall.op = "get_qualities" =>
            ret = Some(LastOr(lastSet.qualities, <<75, 50, 35, 23, 20>>))
    /\ scall.op = "uses_variable_quality" =>
            ret = Some(LastOr(lastSet.variable_quality, TRUE))

\* get_targets read back the second of two different lists given to targets,
\* on a SourceSet whose ratios were never set
C13_Witness ==
    /\ scall.op = "get_targets"
    /\ ret = Some(<<1024, 64>>)
    /\ lastSet.targets = Some(<<1024, 64>>)
    /\ lastSet.ratios = None
    /\ lastSet.variable_quality = Some(FALSE)

\* "ixlib=rust-", the head of the library parameter the documentation names
IXLIB_RUST == <<"i", "x", "l", "i", "b", "=", "r", "u", "s", "t", "-">>

(***************************************************************************)
(* C14: ix() sets lib to "ixlib=rust-{version}", so that join of a Url     *)
(* with a path, no params and ix() applied is                              *)
(* "{scheme}://{domain}/{path}?ixlib=rust-{version}"; a later lib(s) call  *)
(* replaces it by s.                                                       *)
(***************************************************************************)
C14_IxSetsIxlib ==
    /\ (call.op = "ix" /\ url # None) => url[1].lib = IXLIB_RUST \o CARGO_PKG_VERSION
    /\ (call.op = "lib" /\ url # None) => url[1].lib = call.arg
    /\ (JoinReturned /\ url[1].lib = lib_version /\ url[1].params = << >>) =>
            joined[1] = HeadText(url[1]) \o <<"?">> \o IXLIB_RUST \o CARGO_PKG_VERSION

\* the number of elements of s equal to c
RECURSIVE CountOf(_, _)
CountOf(s, c) ==
    IF s = << >> THEN 0 ELSE (IF Head(s) = c THEN 1 ELSE 0) + CountOf(Tail(s), c)

\* the number of c inside the keys and the values of ps
RECURSIVE CountInPairs(_, _)
CountInPairs(ps, c) ==
    IF ps = << >> THEN 0
    ELSE CountOf(ps[1][1], c) + CountOf(ps[1][2], c) + CountInPairs(Tail(ps), c)

\* every key and value of ps is non-empty: the lists the validators accept
ValidPairs(ps) == \A i \in 1..Len(ps) : ps[i][1] # << >> /\ ps[i][2] # << >>

\* join_params returned a string for the list recorded in call.arg
JoinParamsReturned == call.op = "join_params" /\ joined # None

(***************************************************************************)
(* C15 as stated: for n >= 1 valid pairs join_params returns               *)
(* "k0=v0&k1=v1&..." with exactly n - 1 occurrences of '&', neither        *)
(* starting nor ending with '&'; for the empty list it returns "".         *)
(***************************************************************************)
C15_ExactlyNMinusOneSeparators ==
    (call.op = "join_params" /\ ValidPairs(call.arg)) =>
        /\ joined # None
        /\ call.arg = << >> => joined[1] = << >>
        /\ call.arg # << >> =>
            /\ joined[1] = PairsText(call.arg)
            /\ CountOf(joined[1], "&") = Len(call.arg) - 1
            /\ Head(joined[1]) # "&"
            /\ Last(joined[1]) # "&"

(***************************************************************************)
(* C15 amended: for n >= 1 valid pairs join_params returns                 *)
(* "k0=v0&k1=v1&..." in input order, with n - 1 occurrences of '&' beside  *)
(* those inside the keys and values; when no key or value holds '&' that   *)
(* is exactly n - 1, and the result neither starts nor ends with '&'. For  *)
(* the empty list it returns "".                                           *)
(***************************************************************************)
C15_SeparatorsBetweenPairs ==
    (call.op = "join_params" /\ ValidPairs(call.arg)) =>
        /\ joined # None
        /\ call.arg = << >> => joined[1] = << >>
        /\ call.arg # << >> =>
            /\ joined[1] = PairsText(call.arg)
            /\ CountOf(joined[1], "&") =
                    Len(call.arg) - 1 + CountInPairs(call.arg, "&")
            /\ CountInPairs(call.arg, "&") = 0 =>
                    /\ CountOf(joined[1], "&") = Len(call.arg) - 1
                    /\ Head(joined[1]) # "&"
                    /\ Last(joined[1]) # "&"

\* three pairs free of '&' were joined with two separators
C15_Witness ==
    /\ JoinParamsReturned
    /\ Len(call.arg) = 3
    /\ CountInPairs(call.arg, "&") = 0
    /\ CountOf(joined[1], "&") = 2

\* the pieces of s between the occurrences of c, as str::split gives them
RECURSIVE SplitLoop(_, _, _)
SplitLoop(s, c, piece) ==
    IF s = << >> THEN <<piece>>
    ELSE IF Head(s) = c THEN <<piece>> \o SplitLoop(Tail(s), c, << >>)
    ELSE SplitLoop(Tail(s), c, Append(piece, Head(s)))

Split(s, c) == SplitLoop(s, c, << >>)

\* a query read back: split on '&', then each piece on '='; the empty query
\* holds no piece
ParseQuery(q) ==
    IF q = << >> THEN << >>
    ELSE LET pieces == Split(q, "&") IN
         [i \in 1..Len(pieces) |-> Split(pieces[i], "=")]

\* the Url the builder makes of a domain, a path and the list ps
UrlWithParams(ps) ==
    [Url_default EXCEPT !.domain = <<"a", ".", "i", "o">>,
                        !.path = Some(<<"i", ".", "p", "n", "g">>),
                        !.params = ps]

\* the query part of the joined Url with the params in call.arg is what
\* join_params returned
QueryPartIsJoined ==
    call.arg # << >> =>
        Url_join(UrlWithParams(call.arg)) =
            Ok(HeadText(UrlWithParams(call.arg)) \o <<"?">> \o joined[1])

(***************************************************************************)
(* C16 as stated: for every parameter list the builder accepts, splitting  *)
(* the query part of the joined Url on '&' and each piece on '=' returns   *)
(* exactly the supplied (key, value) pairs in the same order.              *)
(***************************************************************************)
C16_QueryRoundTrip ==
    (call.op = "join_params" /\ ValidPairs(call.arg)) =>
        /\ joined # None
        /\ QueryPartIsJoined
        /\ ParseQuery(joined[1]) = call.arg

(***************************************************************************)
(* C16 amended: for every parameter list the builder accepts whose keys    *)
(* and values hold neither '&' nor '=', splitting the query part of the    *)
(* joined Url on '&' and each piece on '=' returns exactly the supplied    *)
(* pairs in the same order; a key or value holding '&' or '=' is rendered  *)
(* verbatim and does not read back.                                        *)
(***************************************************************************)
C16_PlainQueryRoundTrip ==
    (call.op = "join_params" /\ ValidPairs(call.arg)) =>
        /\ joined # None
        /\ QueryPartIsJoined
        /\ (CountInPairs(call.arg, "&") = 0 /\ CountInPairs(call.arg, "=") = 0)
                => ParseQuery(joined[1]) = call.arg
        /\ (CountInPairs(call.arg, "&") > 0 \/ CountInPairs(call.arg, "=") > 0)
                => ParseQuery(joined[1]) # call.arg

\* three plain pairs, one key repeated, were joined and read back
C16_Witness ==
    /\ JoinParamsReturned
    /\ Len(call.arg) = 3
    /\ call.arg[1] = call.arg[3]
    /\ call.arg[1] # call.arg[2]
    /\ CountInPairs(call.arg, "&") = 0
    /\ CountInPairs(call.arg, "=") = 0
    /\ ParseQuery(joined[1]) = call.arg

\* the tokens two values may differ in: none, and two different ones
TokenVariants == {None, Some(<<"t">>), Some(<<"u">>)}

\* the SourceSet configured with the domain, path and params of u and the
\* token tok
SourceSetOf(u, tok) ==
    [SourceSet_default EXCEPT
        !.config = [Config_default EXCEPT !.domain = Some(u.domain),
                                          !.path = u.path,
                                          !.params = Some(u.params),
                                          !.token = tok]]

(***************************************************************************)
(* C17: the token is stored and never rendered: two Urls that differ only  *)
(* in token join to the same string, and two srcset configs that differ    *)
(* only in token give the same srcset_attr result.                         *)
(***************************************************************************)
C17_TokenNotRendered ==
    JoinReturned =>
        \A t \in TokenVariants :
            /\ Url_join([url[1] EXCEPT !.token = t]) = Ok(joined[1])
            /\ srcset_attr(SourceSetOf(url[1], t)) =
                    srcset_attr(SourceSetOf(url[1], url[1].token))

\* a Url with a token, a lib and two params was joined
C17_Witness ==
    /\ JoinReturned
    /\ call.op = "join"
    /\ url[1].token = Some(<<"t">>)
    /\ url[1].lib # << >>
    /\ url[1].domain # << >>
    /\ Len(url[1].params) = 2

(***************************************************************************)
(* C18: in every Url reached from Url::new or Url::default by the builder  *)
(* operations the domain is non-empty whenever join renders it: no         *)
(* rendered Url has an empty host.                                         *)
(***************************************************************************)
C18_JoinedDomainNonEmpty ==
    JoinReturned =>
        /\ url[1].domain # << >>
        /\ ~IsPrefix(Scheme_fmt(url[1].scheme) \o <<":", "/", "/", "/">>, joined[1])

\* from(url) returned a SourceSet for the Url recorded in scall.arg
FromReturned == scall.op = "from" /\ ss # None

\* "{base}{sep}{key}={v} {v}{descriptor}"
PlainCandidate(base, sep, key, v, descriptor) ==
    base \o <<sep>> \o key \o <<"=">> \o to_string(v) \o <<" ">> \o to_string(v)
         \o <<descriptor>>

(***************************************************************************)
(* C19: SourceSet::from(url) records the url as src and the action         *)
(* inferred from its params, and stores the candidates made with the       *)
(* default tables and no quality parameter: for PixelDensity the five      *)
(* "{base}&dpr={r} {r}x" for r = 1..5, for a url without params the 31      *)
(* "{base}?w={t} {t}w", where base is the url joined.                      *)
(***************************************************************************)
C19_FromStoresCandidates ==
    FromReturned =>
        LET u == scall.arg
            base == Url_join(u).val[1]
        IN  /\ ss[1].src = Some(u)
            /\ ss[1].action =
                    Some(IF FixesFootprint(u.params) THEN "PixelDensity" ELSE "Viewport")
            /\ ss[1].config = Config_default
            /\ FixesFootprint(u.params) =>
                    ss[1].srcset =
                        Some([r \in 1..5 |-> PlainCandidate(base, "&", <<"d", "p", "r">>, r, "x")])
            /\ u.params = << >> =>
                    /\ Len(ss[1].srcset[1]) = 31
                    /\ ss[1].srcset =
                        Some([i \in 1..31 |->
                                PlainCandidate(base, "?", <<"w">>,
                                               SRCSET_TARGET_WIDTHS[i], "w")])
            /\ (~FixesFootprint(u.params) /\ u.params # << >>) =>
                    ss[1].srcset =
                        Some([i \in 1..31 |->
                                PlainCandidate(base, "&", <<"w">>,
                                               SRCSET_TARGET_WIDTHS[i], "w")])

\* from was given a Url with ix() applied and the params ar, h and fit
C19_Witness ==
    /\ FromReturned
    /\ ss[1].action = Some("PixelDensity")
    /\ Len(ss[1].srcset[1]) = 5
    /\ ss[1].src[1].lib = lib_version
    /\ Len(ss[1].src[1].params) = 3
    /\ ~HasKey(ss[1].src[1].params, <<"w">>)

\* the failure of unimplemented!()
NotImplemented == Some(Panic("not implemented"))

\* the SourceSet configured with the domain, path and params of u and the
\* variable-quality switch b
SourceSetWith(u, b) ==
    SourceSet_variable_quality(SourceSetOf(u, None), b)

(***************************************************************************)
(* C20: ArtDirection is rejected explicitly: candidate, candidate_and and  *)
(* the matches in build_srcset and From<Url>::from fail with "not          *)
(* implemented" and produce no candidate when the action is ArtDirection;  *)
(* infer_action never returns ArtDirection, so no call of srcset_attr or   *)
(* from reaches that failure.                                              *)
(***************************************************************************)
C20_ArtDirectionRejected ==
    /\ (scall.op \in {"candidate", "candidate_and"}) =>
            IF scall.arg.action = "ArtDirection"
            THEN ret = None /\ serr = NotImplemented
            ELSE ret # None /\ serr = None
    /\ url # None =>
            /\ from_match(url[1], "ArtDirection").err = NotImplemented
            /\ infer_action(url[1]) # "ArtDirection"
            /\ \A b \in BOOLEAN :
                /\ build_srcset_match(SourceSetWith(url[1], b), url[1], "ArtDirection").err
                        = NotImplemented
                /\ srcset_attr(SourceSetWith(url[1], b)).ok
    /\ scall.op = "from" =>
            /\ ss # None
            /\ serr = None
            /\ ss[1].action # Some("ArtDirection")

\* candidate_and was refused for ArtDirection on a Url with a fit parameter
C20_Witness ==
    /\ scall.op = "candidate_and"
    /\ scall.arg.action = "ArtDirection"
    /\ serr = NotImplemented
    /\ url # None
    /\ HasKey(url[1].params, <<"f", "i", "t">>)

(***************************************************************************)
(* C21: SRCSET_TARGET_WIDTHS has exactly 31 entries, is strictly           *)
(* increasing, starts at 100 (IMAGE_MIN_WIDTH) and ends at 8192            *)
(* (IMAGE_MAX_WIDTH).                                                      *)
(***************************************************************************)
C21_TargetWidthsTable ==
    scall.op = "get_targets" /\ lastSet.targets = None =>
        /\ ret = Some(SRCSET_TARGET_WIDTHS)
        /\ Len(ret[1]) = 31
        /\ \A i \in 1..(Len(ret[1]) - 1) : ret[1][i] < ret[1][i + 1]
        /\ ret[1][1] = 100
        /\ ret[1][1] = IMAGE_MIN_WIDTH
        /\ Last(ret[1]) = 8192
        /\ Last(ret[1]) = IMAGE_MAX_WIDTH

\* get_targets returned the table of a SourceSet whose targets were never set
C21_Witness ==
    /\ scall.op = "get_targets"
    /\ lastSet.targets = None
    /\ lastSet.ratios # None
    /\ ret # None
    /\ Len(ret[1]) = 31

\* 1.16 as the f32 the test computes: 1.0 + (8.0 / 100.0) * 2.0
WidthFactor == F32OnePlus(F32Mul(F32Div(SRCSET_WIDTH_TOLERANCE, 100), F32(2)))

\* the running values, starting at 100: acc extended to n values
RECURSIVE RunningValues(_, _)
RunningValues(acc, n) ==
    IF Len(acc) >= n THEN acc
    ELSE RunningValues(Append(acc, F32Mul(Last(acc), WidthFactor)), n)

\* the running value after k multiplications, k = 0..30
Running(k) == RunningValues(<<F32(IMAGE_MIN_WIDTH)>>, 31)[k + 1]

(***************************************************************************)
(* C22: the width table is the progression from 100 with the running       *)
(* (unrounded) value multiplied by 1.16 = 1 + 2*8/100 at each step: entry  *)
(* k is the running value rounded to the nearest integer for k = 0..29,    *)
(* exactly 30 running values are <= 8192, and the 31st, the first above    *)
(* 8192, is replaced by 8192.                                              *)
(***************************************************************************)
C22_WidthProgression ==
    scall.op = "get_targets" /\ lastSet.targets = None =>
        /\ WidthFactor = [m |-> 9730785, e |-> 0]
        /\ \A k \in 0..29 :
            /\ ret[1][k + 1] = F32Round(Running(k))
            /\ F32Le(Running(k), F32(8192))
        /\ ~F32Le(Running(30), F32(8192))
        /\ ret[1][31] = 8192
        /\ test_srcset_target_widths.ok
        /\ test_srcset_target_widths.val[1].index = 30
        /\ test_srcset_target_widths.val[1].prev = Running(30)

\* get_targets returned the default table on a SourceSet with qualities set,
\* and its entry 29 is the rounded running value 7400.846
C22_Witness ==
    /\ scall.op = "get_targets"
    /\ lastSet.targets = None
    /\ lastSet.qualities # None
    /\ ret # None
    /\ ret[1][30] = F32Round(Running(29))
    /\ F32Trunc(Running(29)) = 7400

(***************************************************************************)
(* C23: the non-emptiness assertions of join_params never fire when join   *)
(* calls it: in every Url reached from Url::new or Url::default by builder *)
(* operations, failed ones included, every stored param has a non-empty    *)
(* key and a non-empty value.                                              *)
(***************************************************************************)
C23_StoredParamsValid ==
    /\ url # None =>
            /\ ValidPairs(url[1].params)
            /\ join_params(url[1].params).ok
    /\ call.op = "join" => (err = None \/ err[1].kind = "JoinError")

\* join returned for a Url holding two params, after params was given them
\* in one call
C23_Witness ==
    /\ JoinReturned
    /\ err = None
    /\ Len(url[1].params) = 2
    /\ supplied = url[1].params
    /\ url[1].params[1] # url[1].params[2]
    /\ url[1].lib = << >>

(***************************************************************************)
(* C24: every candidate made by candidate or candidate_and has a URL part  *)
(* with at most one '?', for every Url whose components hold no '?': also  *)
(* for a Url with a lib (after ix()) and no params, whose joined form      *)
(* already ends in "?{lib}".                                               *)
(***************************************************************************)
C24_AtMostOneQuestionMark ==
    /\ FromReturned =>
            \A i \in 1..Len(ss[1].srcset[1]) : CountOf(ss[1].srcset[1][i], "?") <= 1
    /\ (scall.op \in {"candidate", "candidate_and"} /\ ret # None) =>
            CountOf(ret[1], "?") <= 1

\* p occurs in s
HasSub(s, p) == \E i \in 1..Len(s) : StartsAt(s, i, p)

QDPR == <<"?", "d", "p", "r", "=">>
ADPR == <<"&", "d", "p", "r", "=">>

(***************************************************************************)
(* C25: whenever infer_action returns PixelDensity for a Url, the Url has  *)
(* at least one param, so in every srcset_attr and SourceSet::from run the *)
(* dpr segment of a pixel-density candidate is introduced with '&': the    *)
(* "?dpr=" and "&q=..?dpr=" forms of candidate and candidate_and never      *)
(* occur.                                                                  *)
(***************************************************************************)
C25_PixelDensityHasParams ==
    /\ url # None =>
            /\ infer_action(url[1]) = "PixelDensity" =>
                    (has_params(url[1]) /\ url[1].params # << >>)
            /\ \A b \in BOOLEAN :
                    LET a == srcset_attr(SourceSetWith(url[1], b)) IN
                    /\ a.ok
                    /\ ~HasSub(a.val[1], QDPR)
                    /\ infer_action(url[1]) = "PixelDensity" => HasSub(a.val[1], ADPR)
    /\ FromReturned =>
            \A i \in 1..Len(ss[1].srcset[1]) :
                /\ ~HasSub(ss[1].srcset[1][i], QDPR)
                /\ ss[1].action = Some("PixelDensity") => HasSub(ss[1].srcset[1][i], ADPR)

\* from stored pixel-density candidates for a Url whose only params are an
\* aspect ratio and a height
C25_Witness ==
    /\ FromReturned
    /\ ss[1].action = Some("PixelDensity")
    /\ Len(ss[1].src[1].params) = 2
    /\ HasKey(ss[1].src[1].params, <<"a", "r">>)
    /\ HasKey(ss[1].src[1].params, <<"h">>)
    /\ HasSub(ss[1].srcset[1][5], ADPR)

(***************************************************************************)
(* C26: for a SourceSet made by SourceSet::from(url) from a url with a     *)
(* domain and a path, srcset_attr() succeeds and returns the stored srcset *)
(* candidates of that url joined by ",\n".                                 *)
(***************************************************************************)
C26_AttrOfFrom ==
    (AttrCalled /\ ss[1].src # None /\ ss[1].srcset # None) =>
        /\ serr = None
        /\ attr = Some(slice_join(ss[1].srcset[1], CommaNewline))

\* the step was a builder operation on the Url the caller held, and returned
\* a Url
BuilderStep == url # None /\ url' # None /\ call'.op \notin {"new", "default"}

(***************************************************************************)
(* C27: each successful builder operation changes only its own field:      *)
(* scheme(s) only scheme, domain(d) only domain, path(p) only path         *)
(* (replacing an earlier one), lib(l) and ix() only lib, token(t) only     *)
(* token, param and params only extend params behind the pairs already     *)
(* stored; join changes nothing.                                           *)
(***************************************************************************)
C27_BuilderFrame ==
    [][BuilderStep =>
        LET u == url[1]
            v == url'[1]
            op == call'.op
            arg == call'.arg
        IN  /\ op = "scheme" => v = [u EXCEPT !.scheme = arg]
            /\ op = "domain" => v = [u EXCEPT !.domain = arg]
            /\ op = "path" => v = [u EXCEPT !.path = Some(arg)]
            /\ op = "lib" => v = [u EXCEPT !.lib = arg]
            /\ op = "ix" => v = [u EXCEPT !.lib = v.lib]
            /\ op = "token" => v = [u EXCEPT !.token = Some(arg)]
            /\ op = "param" => v = [u EXCEPT !.params = Append(u.params, arg)]
            /\ op = "params" => v = [u EXCEPT !.params = u.params \o arg]
            /\ op = "join" => v = u
            /\ op \in {"scheme", "domain", "path", "lib", "ix", "token", "param",
                       "params", "join"}]_vars

\* scheme(Http) returned a Url that keeps a domain, a path, a lib, a token
\* and two params
C27_Witness ==
    /\ call.op = "scheme"
    /\ url # None
    /\ url[1].scheme = "Http"
    /\ url[1].domain = <<"b", ".", "i", "o">>
    /\ url[1].path # None
    /\ url[1].lib # << >>
    /\ url[1].token # None
    /\ Len(url[1].params) = 2

\* to_url returned a Url for the Config the module holds
ToUrlReturned == scall.op = "to_url" /\ cfg # None /\ ret # None

(***************************************************************************)
(* C28: on the srcset config params(list) replaces the stored list: after  *)
(* params(A) then params(B) the Url to_url materialises carries exactly    *)
(* the pairs of B in order and none of A, whereas Url::params(A).params(B) *)
(* carries A followed by B; likewise the last domain and the last path     *)
(* given win.                                                              *)
(***************************************************************************)
C28_ConfigParamsReplace ==
    ToUrlReturned =>
        /\ ret[1].params = IF cfgHist.params = << >> THEN << >> ELSE Last(cfgHist.params)
        /\ Some(ret[1].domain) = cfgHist.domain
        /\ ret[1].path = cfgHist.path
        /\ Len(cfgHist.params) = 2 =>
            LET A == cfgHist.params[1]
                B == cfgHist.params[2]
                first == Url_params(Url_new(ret[1].domain).val[1], A)
            IN  first.ok => Url_params(first.val[1], B).val[1].params = A \o B

\* to_url after params was given the list (ar, h) and then the list (fit)
C28_Witness ==
    /\ ToUrlReturned
    /\ cfgHist.params = << <<AR1, H32>>, <<FIT>> >>
    /\ ret[1].params = <<FIT>>
    /\ ret[1].domain = <<"b", ".", "i", "o">>

(***************************************************************************)
(* C29: the two copies of Url::join agree: for every scheme, domain, path, *)
(* lib and params the join of lib.rs returns the string the join of        *)
(* url/mod.rs returns, also when the lib is non-empty and the params are   *)
(* empty, and when both are non-empty.                                     *)
(***************************************************************************)
C29_JoinCopiesAgree ==
    JoinReturned => lib_rs_Url_join(url[1]).val = joined

====
